---- MODULE Spec2Model ----
(***************************************************************************)
(* Conversation session manager of the finance coach UI: the App component *)
(* (thread registry, active thread, message map, settings, localStorage),  *)
(* the Sidebar (sort policy, rename), and the Chat component (draft input, *)
(* send, stream assembly, fallback).                                       *)
(*                                                                         *)
(* React semantics used throughout:                                        *)
(*  - an event handler runs to completion; its queued state updates are    *)
(*    applied in order (functional updaters on the latest state);          *)
(*  - a closure created by a render keeps the props and state of that      *)
(*    render for as long as it runs, also across awaits;                   *)
(*  - passive effects of a commit run before the next event is handled.    *)
(* Strings are sequences of one-character strings.                          *)
(***************************************************************************)
EXTENDS Integers, Sequences, FiniteSets, TLC

VARIABLES
  now,          \* the reading Date.now() returns
  threads,      \* App state: ChatThread[] in storage order
  activeId,     \* App state: id of the active thread, NoId for null
  messagesMap,  \* App state: thread id -> Message[]
  settings,     \* App state: [saveHistory, streamResponses]
  store,        \* localStorage: threads, active_thread, messages_map, settings, drafts
  input,        \* Chat state: text of the composer
  busy,         \* Chat state: a request is in flight
  edit,         \* Chat state: editingIdx and editDraft
  budgets,      \* Dashboard state: budget per category
  palette,      \* paletteOpen of App, query and idx of CommandPalette, the timer it set
  reqs,         \* in-flight send/resend calls with the closures they captured
  pending,      \* passive effects the last commit scheduled
  sends,        \* how many calls of send have gone past the blank-input return
  last          \* the handler or continuation that ran last, with its arguments

vars == <<now, threads, activeId, messagesMap, settings, store, input, busy, edit,
          budgets, palette, reqs, pending, sends, last>>

----------------------------------------------------------------------------
(* Bounds *)

\* the last reading of Date.now()
MaxTime == 2

\* onNewChat is explored while the registry has fewer threads
MaxThreads == 3

\* threads (and clock readings) of a registry kept from an earlier session
MaxStored == 3

\* calls of send that get past the blank-input return
MaxSends == 1

\* calls of send and resendWithText that can be in flight together
MaxProcs == 2

\* calls of send and resendWithText in a run of the conversation specifications
MaxCalls == 2

----------------------------------------------------------------------------
(* Strings *)

NoId == 0

\* localStorage.getItem(key): <<>> for null, <<v>> for a stored value v
Absent == <<>>

Stored(v) == <<v>>

SentinelTitle == <<"N", "e", "w", " ", "C", "h", "a", "t">>

IsWs(c) == c \in {" ", "\n"}

SetMin(S) == CHOOSE x \in S : \A y \in S : x <= y

SetMax(S) == CHOOSE x \in S : \A y \in S : y <= x

\* String.prototype.trim
Trim(s) ==
  LET keep == {i \in 1..Len(s) : ~IsWs(s[i])}
  IN IF keep = {} THEN <<>> ELSE SubSeq(s, SetMin(keep), SetMax(keep))

\* a string is falsy exactly when it is empty
OrElse(s, dflt) == IF s = <<>> THEN dflt ELSE s

\* (variant) a guard that only rejects the empty string
BlankIfEmpty(s) == s = <<>>

\* !s.trim()
Blank(s) == Trim(s) = <<>>

----------------------------------------------------------------------------
(* Threads (Sidebar.tsx ChatThread) and messages (Chat.tsx Message) *)

\* A thread as onNewChat and ensureActive build it. updatedAt 0 stands for an
\* absent updatedAt and pinned FALSE also for an absent pinned: the code reads
\* both only through truthiness (a.updatedAt || a.createdAt, a.pinned ? 1 : 0,
\* !t.pinned), and Date.now() is never 0.
NewThread(t) ==
  [id |-> t, title |-> SentinelTitle, createdAt |-> t, updatedAt |-> t, pinned |-> FALSE]

\* The thread the no-active-thread branch of updateMessages builds.
BareThread(t) ==
  [id |-> t, title |-> SentinelTitle, createdAt |-> t, updatedAt |-> 0, pinned |-> FALSE]

ThreadIds(ts) == {ts[i].id : i \in 1..Len(ts)}

\* threads.find(t => t.id === id): the index of the first match, 0 for none
FindThread(ts, id) ==
  LET hits == {i \in 1..Len(ts) : ts[i].id = id}
  IN IF hits = {} THEN 0 ELSE SetMin(hits)

\* ts.filter(t => t.id !== id)
RECURSIVE WithoutId(_, _)
WithoutId(ts, id) ==
  IF ts = <<>> THEN <<>>
  ELSE (IF Head(ts).id /= id THEN <<Head(ts)>> ELSE <<>>) \o WithoutId(Tail(ts), id)

\* {...m, [id]: msgs}
Put(m, id, msgs) == [x \in DOMAIN m \cup {id} |-> IF x = id THEN msgs ELSE m[x]]

\* const nm = {...m}; delete nm[id]
Drop(m, id) == [x \in DOMAIN m \ {id} |-> m[x]]

\* messagesMap[activeId || ''] || []
MessagesOf(m, id) == IF id \in DOMAIN m THEN m[id] ELSE <<>>

----------------------------------------------------------------------------
(* Sidebar sort policy *)

\* the comparator of Sidebar's sort: negative when a goes first
SortKey(t) == IF t.updatedAt /= 0 THEN t.updatedAt ELSE t.createdAt

\* (variant) a comparator that ignores the pin
CompareByKeyOnly(a, b) == SortKey(b) - SortKey(a)

Compare(a, b) ==
  LET ap == IF a.pinned THEN 1 ELSE 0
      bp == IF b.pinned THEN 1 ELSE 0
  IN IF ap /= bp THEN bp - ap ELSE SortKey(b) - SortKey(a)

\* Array.prototype.sort is stable: x goes before the first element that must
\* follow it, after every element that compares equal.
RECURSIVE InsertSorted(_, _)
InsertSorted(x, s) ==
  IF s = <<>> THEN <<x>>
  ELSE IF Compare(Head(s), x) > 0 THEN <<x>> \o s
  ELSE <<Head(s)>> \o InsertSorted(x, Tail(s))

RECURSIVE SortFrom(_, _)
SortFrom(acc, s) ==
  IF s = <<>> THEN acc ELSE SortFrom(InsertSorted(Head(s), acc), Tail(s))

\* const sorted = [...threads].sort(...)
Sorted(ts) == SortFrom(<<>>, ts)

----------------------------------------------------------------------------
(* localStorage *)

\* JSON.stringify then JSON.parse of a message list keeps role, content and
\* the tool payload and loses the identity of the objects.
StripOids(msgs) == [i \in 1..Len(msgs) |-> [msgs[i] EXCEPT !.oid = 0]]

JsonMessagesMap(m) == [x \in DOMAIN m |-> StripOids(m[x])]

\* JSON.parse of a stored messages_map: every message is a new object
RECURSIVE TotalLen(_, _)
TotalLen(m, S) ==
  IF S = {} THEN 0
  ELSE LET x == SetMax(S) IN Len(m[x]) + TotalLen(m, S \ {x})

ParseMessagesMap(m) ==
  [x \in DOMAIN m |->
      [i \in 1..Len(m[x]) |->
          [m[x][i] EXCEPT !.oid = TotalLen(m, {y \in DOMAIN m : y < x}) + i]]]

\* a stored text that is not JSON: the text of v cut short
Truncated(v) == <<v, "cut">>

\* (variant) a reader that takes what it can read of a text
JsonParseSalvage(x, d) == IF x = Absent THEN d ELSE x[1]

\* try { return JSON.parse(localStorage.getItem(key) || text of d) }
\* catch { return d }
JsonParseOr(x, d) == IF Len(x) = 1 THEN x[1] ELSE d

EmptyStore ==
  [threads |-> Absent, active_thread |-> Absent, messages_map |-> Absent,
   settings |-> Absent, budgets |-> Absent, drafts |-> [x \in {} |-> <<>>]]

\* budgets: {}
NoBudgets == [c \in {} |-> 0]

DefaultSettings == [saveHistory |-> TRUE, streamResponses |-> TRUE]

\* The part of the App state a handler's updaters go through.
AppState == [threads |-> threads, activeId |-> activeId,
             messagesMap |-> messagesMap, store |-> store]

\* What the closures of the current render hold.
AppClosure == [activeId |-> activeId, threads |-> threads,
               saveHistory |-> settings.saveHistory]

\* What updateMessages reads of the render that created it: activeId,
\* settings.saveHistory, and of threads only
\* threads.find(t=>t.id===activeId)?.title === 'New Chat'
UpdateClosure(cl) ==
  [activeId |-> cl.activeId,
   sentinel |-> LET hits == {i \in 1..Len(cl.threads) : cl.threads[i].id = cl.activeId}
                IN hits /= {}
                   /\ cl.threads[CHOOSE i \in hits : \A j \in hits : i <= j].title
                        = <<"N", "e", "w", " ", "C", "h", "a", "t">>,
   saveHistory |-> cl.saveHistory]

SaveThreads(st, doSave) ==
  IF doSave THEN [st EXCEPT !.store.threads = Stored(st.threads)] ELSE st

SaveMessages(st, doSave) ==
  IF doSave THEN [st EXCEPT !.store.messages_map = Stored(JsonMessagesMap(st.messagesMap))] ELSE st

SaveActive(st, doSave) ==
  IF doSave THEN [st EXCEPT !.store.active_thread = Stored(st.activeId)] ELSE st

----------------------------------------------------------------------------
(* App: thread registry operations, as state transformers.  st is the App  *)
(* state the queued updaters run on, cl the closure of the render whose    *)
(* handler is running, t the clock reading.                                *)

TitleLen == 40

Ellipsis == "..."

\* (variant) an active id counts as valid whenever it is not null
HasActiveNonNull(cl) == cl.activeId /= NoId

\* the guard of ensureActive and of the effect that calls it
HasActive(cl) == cl.activeId /= NoId /\ FindThread(cl.threads, cl.activeId) /= 0

\* ensureActive
EnsureActive(st, cl, t) ==
  IF HasActive(cl) THEN st
  ELSE LET s1 == SaveThreads([st EXCEPT !.threads = <<NewThread(t)>> \o st.threads],
                             cl.saveHistory)
           s2 == SaveActive([s1 EXCEPT !.activeId = t], cl.saveHistory)
       IN SaveMessages([s2 EXCEPT !.messagesMap = Put(s2.messagesMap, t, <<>>)],
                       cl.saveHistory)

\* onNewChat: the list is built from the closure's threads and messagesMap
\* and always persisted
OnNewChatOp(st, cl, clMap, t) ==
  LET s1 == SaveThreads([st EXCEPT !.threads = <<NewThread(t)>> \o cl.threads], TRUE)
      s2 == SaveActive([s1 EXCEPT !.activeId = t], TRUE)
  IN SaveMessages([s2 EXCEPT !.messagesMap = Put(clMap, t, <<>>)], TRUE)

\* onSelectThread
OnSelectThreadOp(st, id) == SaveActive([st EXCEPT !.activeId = id], TRUE)

\* deleteThread.  nextActive is assigned inside the setThreads updater: when
\* React runs the updater during the setThreads call (eager) the assignment
\* is seen by setActiveId(nextActive); when React queues the updater for the
\* next render it is not, and nextActive is still the id being deleted.
DeleteThreadOp(st, cl, id, eager) ==
  LET nt == WithoutId(st.threads, id)
      s1 == SaveThreads([st EXCEPT !.threads = nt], TRUE)
      s2 == SaveMessages([s1 EXCEPT !.messagesMap = Drop(s1.messagesMap, id)], TRUE)
      nextActive == IF cl.activeId = id /\ eager
                    THEN (IF Len(nt) > 0 THEN nt[1].id ELSE NoId)
                    ELSE cl.activeId
  IN IF cl.activeId = id
     THEN [s2 EXCEPT !.activeId = nextActive,
                     !.store.active_thread = IF nextActive /= NoId THEN Stored(nextActive) ELSE Absent]
     ELSE s2

\* (variant) renameThread without the || 'New Chat' default
RenameThreadOpRaw(st, id, title) ==
  SaveThreads([st EXCEPT !.threads =
      [i \in 1..Len(st.threads) |->
          IF st.threads[i].id = id
          THEN [st.threads[i] EXCEPT !.title = title]
          ELSE st.threads[i]]], TRUE)

\* renameThread
RenameThreadOp(st, id, title) ==
  SaveThreads([st EXCEPT !.threads =
      [i \in 1..Len(st.threads) |->
          IF st.threads[i].id = id
          THEN [st.threads[i] EXCEPT !.title = OrElse(title, SentinelTitle)]
          ELSE st.threads[i]]], TRUE)

\* (variant) togglePinThread that also clears the thread's updatedAt
TogglePinThreadOpTouch(st, id) ==
  SaveThreads([st EXCEPT !.threads =
      [i \in 1..Len(st.threads) |->
          IF st.threads[i].id = id
          THEN [st.threads[i] EXCEPT !.pinned = ~st.threads[i].pinned, !.updatedAt = 0]
          ELSE st.threads[i]]], TRUE)

\* togglePinThread
TogglePinThreadOp(st, id) ==
  SaveThreads([st EXCEPT !.threads =
      [i \in 1..Len(st.threads) |->
          IF st.threads[i].id = id
          THEN [st.threads[i] EXCEPT !.pinned = ~st.threads[i].pinned]
          ELSE st.threads[i]]], TRUE)

\* clearAll
ClearAllOp(st) ==
  [threads |-> <<>>, activeId |-> NoId, messagesMap |-> [x \in {} |-> <<>>],
   store |-> [st.store EXCEPT !.threads = Absent, !.active_thread = Absent,
                              !.messages_map = Absent, !.settings = Absent]]

\* first.content.slice(0,40) + (first.content.length>40?'…':'')
DeriveTitle(content) ==
  IF Len(content) > TitleLen
  THEN SubSeq(content, 1, TitleLen) \o <<Ellipsis>>
  ELSE content

\* msgs.find(m => m.role==='user'): its index, 0 for none
FirstUser(msgs) ==
  LET hits == {i \in 1..Len(msgs) : msgs[i].role = "user"}
  IN IF hits = {} THEN 0 ELSE SetMin(hits)

\* updateMessages (the onMessagesChange of Chat)
UpdateMessages(st, cl, msgs, t) ==
  IF cl.activeId = NoId
  THEN LET s1 == SaveThreads([st EXCEPT !.threads = <<BareThread(t)>> \o st.threads],
                             cl.saveHistory)
           s2 == SaveActive([s1 EXCEPT !.activeId = t], cl.saveHistory)
       IN SaveMessages([s2 EXCEPT !.messagesMap = Put(s2.messagesMap, t, msgs)],
                       cl.saveHistory)
  ELSE LET s1 == SaveMessages([st EXCEPT !.messagesMap = Put(st.messagesMap, cl.activeId, msgs)],
                              cl.saveHistory)
           s2 == SaveThreads([s1 EXCEPT !.threads =
                    [i \in 1..Len(s1.threads) |->
                        IF s1.threads[i].id = cl.activeId
                        THEN [s1.threads[i] EXCEPT !.updatedAt = t]
                        ELSE s1.threads[i]]], cl.saveHistory)
           u == FirstUser(msgs)
       IN IF Len(msgs) > 0 /\ cl.sentinel /\ u /= 0
          THEN SaveThreads([s2 EXCEPT !.threads =
                    [i \in 1..Len(s2.threads) |->
                        IF s2.threads[i].id = cl.activeId
                        THEN [s2.threads[i] EXCEPT !.title = DeriveTitle(msgs[u].content)]
                        ELSE s2.threads[i]]], TRUE)
          ELSE s2

----------------------------------------------------------------------------
(* Chat: messages and setMessages.  A message carries oid, the identity of *)
(* its JavaScript object: the token and fallback updaters change an object *)
(* in place, and every array that holds the object sees the change.  The   *)
(* ts field (a display timestamp no operation reads) is left out.          *)

NoTool == [results |-> "none", missing |-> "none"]

Procs == 1..MaxProcs

Msg(role, content, tool, oid) ==
  [role |-> role, content |-> content, tool |-> tool, oid |-> oid]

\* env: the App state together with the in-flight calls
Env == [st |-> AppState, reqs |-> reqs]

OidsOf(msgs) == {msgs[i].oid : i \in 1..Len(msgs)}

LiveOids(env) ==
  UNION {OidsOf(env.st.messagesMap[x]) : x \in DOMAIN env.st.messagesMap}
    \cup UNION {OidsOf(env.reqs[p].base) : p \in Procs}

\* the identity of a newly allocated object
FreshOid(env) ==
  LET live == LiveOids(env)
  IN SetMin((1..(Cardinality(live) + 1)) \ live)

\* obj.content = f(obj.content) on the object oid, wherever it is referenced
MutateList(msgs, oid, content) ==
  [i \in 1..Len(msgs) |->
      IF msgs[i].oid = oid THEN [msgs[i] EXCEPT !.content = content] ELSE msgs[i]]

SetContent(env, oid, content) ==
  [st |-> [env.st EXCEPT !.messagesMap =
              [x \in DOMAIN env.st.messagesMap |->
                  MutateList(env.st.messagesMap[x], oid, content)]],
   reqs |-> [p \in Procs |->
              [env.reqs[p] EXCEPT !.base = MutateList(env.reqs[p].base, oid, content)]]]

\* a setMessages that would go through the updateMessages of the current
\* render, and so write the list of the thread that is active now
PublishToActive(env, p, next, t) ==
  [env EXCEPT !.st = UpdateMessages(env.st, [env.reqs[p].cl EXCEPT !.activeId = env.st.activeId],
                                    next, t)]

\* setMessages(next) of the call p: setInternalMsgs(next) (never read, since
\* the messages prop is always given) and onMessagesChange(next), which is
\* the updateMessages of the render that created the call's closures
Publish(env, p, next, t) ==
  [env EXCEPT !.st = UpdateMessages(env.st, env.reqs[p].cl, next, t)]

\* setMessages(m => [...m, msg]): m is the messages prop the closure holds
AppendMessage(env, p, role, content, tool, t) ==
  Publish(env, p, env.reqs[p].base \o <<Msg(role, content, tool, FreshOid(env))>>, t)

\* setMessages(m => { const copy = m.slice(); const last = copy[copy.length-1]
\*   if (last && last.role === 'assistant') last.content += evt.content || ''
\*   return copy })
AppendToken(env, p, content, t) ==
  LET base == env.reqs[p].base
      n == Len(base)
      e1 == IF n > 0 /\ base[n].role = "assistant"
            THEN SetContent(env, base[n].oid, base[n].content \o content)
            ELSE env
  IN Publish(e1, p, e1.reqs[p].base, t)

\* the updater of send's fallback: fill an empty trailing assistant message
\* in place, else push a new one
FillOrAppend(env, p, answer, t) ==
  LET base == env.reqs[p].base
      n == Len(base)
  IN IF n > 0 /\ base[n].role = "assistant" /\ base[n].content = <<>>
     THEN LET e1 == SetContent(env, base[n].oid, answer)
          IN Publish(e1, p, e1.reqs[p].base, t)
     ELSE AppendMessage(env, p, "assistant", answer, NoTool, t)

\* m.slice(0, idx + 1), idx counted from 0
SliceTo(msgs, idx) ==
  SubSeq(msgs, 1, IF idx + 1 < Len(msgs) THEN idx + 1 ELSE Len(msgs))

\* setMessages(m => [...m.slice(0, idx + 1), { role: 'assistant', content }])
TruncateAppend(env, p, content, t) ==
  Publish(env, p, SliceTo(env.reqs[p].base, env.reqs[p].idx)
                    \o <<Msg("assistant", content, NoTool, FreshOid(env))>>, t)

\* saveAndResend's updater: const copy = m.slice(0, idx+1)
\*   if (copy[idx]) copy[idx] = { role: 'user', content: newQ, ts }
ReplaceAt(env, msgs, idx, newQ) ==
  LET copy == SliceTo(msgs, idx)
  IN IF idx + 1 <= Len(copy)
     THEN [copy EXCEPT ![idx + 1] = Msg("user", newQ, NoTool, FreshOid(env))]
     ELSE copy

----------------------------------------------------------------------------
(* Stream assembly.  The response text is a sequence of symbols: a newline, *)
(* a space, the 'data:' marker, a JSON text that parses to an event, and    *)
(* text that is not JSON.                                                   *)

Sym(k) == [k |-> k, type |-> "", content |-> <<>>, message |-> <<>>, tool |-> NoTool]

NL == Sym("nl")

SP == Sym("sp")

DataMarker == Sym("data")

NotJson == Sym("text")

\* the JSON text of {type, content, message, results, missing}
JsonEvt(type, content, message, tool) ==
  [k |-> "json", type |-> type, content |-> content, message |-> message, tool |-> tool]

ErrorDuringStreaming == <<"Error during streaming">>

CheckApiKey == <<"Could not reach the LLM provider. Check your API key (e.g., OPENAI_API_KEY) and try again.">>

\* trim() on a piece of the response text
TrimSyms(s) ==
  LET keep == {i \in 1..Len(s) : s[i].k \notin {"nl", "sp"}}
  IN IF keep = {} THEN <<>> ELSE SubSeq(s, SetMin(keep), SetMax(keep))

\* buffer.indexOf('\n\n'), 1-based, 0 for -1
IndexOfBoundary(buf) ==
  LET hits == {i \in 1..(Len(buf) - 1) : buf[i].k = "nl" /\ buf[i + 1].k = "nl"}
  IN IF hits = {} THEN 0 ELSE SetMin(hits)

\* toolResults: evt.results || {}, toolMissing: evt.missing || []
ToolOf(evt) ==
  [results |-> IF evt.tool.results = "none" THEN "{}" ELSE evt.tool.results,
   missing |-> IF evt.tool.missing = "none" THEN "[]" ELSE evt.tool.missing]

\* (variant) an event of any other type is shown as a message
DispatchLoose(env, p, evt, t) ==
  IF evt.type = "tools" THEN AppendMessage(env, p, "assistant", <<>>, ToolOf(evt), t)
  ELSE IF evt.type = "token" THEN AppendToken(env, p, evt.content, t)
  ELSE IF evt.type = "error" /\ env.reqs[p].kind = "send"
       THEN AppendMessage(env, p, "assistant", OrElse(evt.message, ErrorDuringStreaming), NoTool, t)
  ELSE IF evt.type = "done" THEN env
  ELSE AppendMessage(env, p, "assistant", evt.content, NoTool, t)

\* the if/else chain on evt.type; resendWithText has no 'error' branch
Dispatch(env, p, evt, t) ==
  IF evt.type = "tools" THEN AppendMessage(env, p, "assistant", <<>>, ToolOf(evt), t)
  ELSE IF evt.type = "token" THEN AppendToken(env, p, evt.content, t)
  ELSE IF evt.type = "message" THEN AppendMessage(env, p, "assistant", evt.content, NoTool, t)
  ELSE IF evt.type = "error" /\ env.reqs[p].kind = "send"
       THEN AppendMessage(env, p, "assistant", OrElse(evt.message, ErrorDuringStreaming), NoTool, t)
  ELSE env

\* the inner while loop: every complete frame of the buffer, in order
RECURSIVE Drain(_, _, _, _, _)
Drain(env, p, buf, ended, t) ==
  LET cut == IndexOfBoundary(buf)
  IN IF cut = 0 THEN [env |-> env, buf |-> buf, ended |-> ended]
     ELSE LET raw == TrimSyms(SubSeq(buf, 1, cut - 1))
              rest == SubSeq(buf, cut + 2, Len(buf))
              jsonStr == TrimSyms(Tail(raw))
          IN IF raw = <<>> \/ raw[1].k /= "data" THEN Drain(env, p, rest, ended, t)
             ELSE IF Len(jsonStr) = 1 /\ jsonStr[1].k = "json"
                  THEN Drain(Dispatch(env, p, jsonStr[1], t), p, rest,
                             ended \/ jsonStr[1].type = "done", t)
                  ELSE Drain(env, p, rest, ended, t)

----------------------------------------------------------------------------
(* Inputs *)

\* what the user types into the composer and the rename fields
Inputs == {<<" ">>, <<" ", "a">>}

\* what the user types into a rename field or the rename prompt
RenameInputs == {<<>>, <<" ">>, <<" ", "a">>}

\* what the user types into the edit field of a message
EditInputs == {<<" ">>, <<"e">>}

\* answers of POST /api/ask
Answers == {<<"x">>}

Frame(evt) == <<DataMarker, evt, NL, NL>>

TokenA == Frame(JsonEvt("token", <<"h">>, <<>>, NoTool))

TokenB == Frame(JsonEvt("token", <<"i">>, <<>>, NoTool))

DoneFrame == Frame(JsonEvt("done", <<>>, <<>>, NoTool))

\* frames the loop has to skip: a JSON text without the data marker, a
\* data line that is not JSON, an event of a type no branch names
NoMarkerFrame == <<JsonEvt("token", <<"z">>, <<>>, NoTool), NL, NL>>

NotJsonFrame == <<DataMarker, SP, NotJson, NL, NL>>

OtherTypeFrame == Frame(JsonEvt("ping", <<"z">>, <<>>, NoTool))

\* response texts with such frames between the tokens, with and without done
JunkStreams ==
  {TokenA \o NotJsonFrame \o TokenB \o NoMarkerFrame \o DoneFrame,
   TokenA \o NoMarkerFrame \o OtherTypeFrame}

\* response texts in which a token follows done, and one without done
LateStreams == {TokenA \o DoneFrame \o TokenB, TokenA}

\* frames of the other event types, with and without their optional fields
ToolsFrame == Frame(JsonEvt("tools", <<>>, <<>>, [results |-> "r", missing |-> "m"]))

ToolsBare == Frame(JsonEvt("tools", <<>>, <<>>, NoTool))

MessageFrame == Frame(JsonEvt("message", <<"m">>, <<>>, NoTool))

ErrorFrame == Frame(JsonEvt("error", <<>>, <<"e">>, NoTool))

ErrorBare == Frame(JsonEvt("error", <<>>, <<>>, NoTool))

\* response texts with events of every type
EventStreams ==
  {ToolsFrame \o TokenA \o MessageFrame \o ErrorFrame \o DoneFrame,
   ToolsBare \o ErrorBare \o TokenA}

\* response texts to be read in chunks of every kind: tokens and done, events
\* of other types without done, and a token after done
ChunkStreams ==
  {TokenA \o TokenB \o DoneFrame,
   ToolsFrame \o TokenA \o MessageFrame,
   TokenA \o DoneFrame \o TokenB}

\* response texts of POST /api/ask/stream: one ends with done, one is cut short
Streams == {TokenA \o TokenB \o DoneFrame, TokenA}

----------------------------------------------------------------------------
(* State machine *)

IdleReq ==
  [pc |-> "idle", kind |-> "", base |-> <<>>,
   cl |-> [activeId |-> NoId, sentinel |-> FALSE, saveHistory |-> FALSE],
   q |-> <<>>, idx |-> 0, rest |-> <<>>, buf |-> <<>>, from |-> ""]

Op(op, id, txt) == [op |-> op, id |-> id, txt |-> txt]

\* editingIdx null (idx -1, message indices count from 0) and editDraft ''
NoEdit == [idx |-> 0 - 1, draft |-> <<>>]

\* no setTimeout of the palette is due
NoTimer == [cmd |-> 0, cl |-> [activeId |-> NoId, threads |-> <<>>, saveHistory |-> FALSE],
            map |-> [x \in {} |-> <<>>]]

\* paletteOpen false; query and idx as CommandPalette's useState sets them
ClosedPalette == [open |-> FALSE, query |-> <<>>, idx |-> 0, timer |-> NoTimer]

\* The effects of the mount: App's effect creates a thread unless the active
\* id names one, Chat's loadDraft changes the input when a draft is stored.
MountEffects(s, id, ts) ==
  (IF ~HasActive([activeId |-> id, threads |-> ts]) THEN {"active"} ELSE {})
    \cup (IF id \in DOMAIN s.drafts /\ s.drafts[id] /= <<>> THEN {"draft"} ELSE {})

\* The state after construction: the useState initialisers of App read
\* localStorage (s), t is the clock reading.
InitFrom(s, t) ==
  /\ now = t
  /\ threads = JsonParseOr(s.threads, <<>>)
  /\ activeId = (IF s.active_thread = Absent THEN NoId ELSE s.active_thread[1])
  /\ messagesMap = ParseMessagesMap(JsonParseOr(s.messages_map, [x \in {} |-> <<>>]))
  /\ settings = JsonParseOr(s.settings, DefaultSettings)
  /\ budgets = JsonParseOr(s.budgets, NoBudgets)
  /\ palette = ClosedPalette
  /\ store = s
  /\ input = <<>>
  /\ busy = FALSE
  /\ edit = NoEdit
  /\ reqs = [p \in Procs |-> IdleReq]
  /\ pending = MountEffects(s, IF s.active_thread = Absent THEN NoId ELSE s.active_thread[1],
                            JsonParseOr(s.threads, <<>>))
  /\ sends = 0
  /\ last = Op("mount", NoId, <<>>)

\* a first visit: localStorage is empty
Init == InitFrom(EmptyStore, 1)

\* loadDraft: const v = localStorage.getItem(draftKey); if (v !== null) setInput(v)
LoadDraft(st, id, text) ==
  IF id \in DOMAIN st.store.drafts THEN st.store.drafts[id] ELSE text

\* The effects the commit of a new App state schedules: Chat's
\* useEffect(loadDraft, [threadId]) and App's effect on [activeId, threads].
\* An effect run that would change nothing is a stuttering step and is not
\* scheduled.
Scheduled(st, text) ==
  (IF st.activeId /= activeId /\ LoadDraft(st, st.activeId, text) /= text
   THEN {"draft"} ELSE {})
    \cup (IF (st.activeId /= activeId \/ st.threads /= threads)
             /\ ~HasActive([activeId |-> st.activeId, threads |-> st.threads])
          THEN {"active"} ELSE {})

\* the render after a handler: env is computed once (e) and becomes the state
Commit(env, text) ==
  \E e \in {env} :
     /\ input' = text
     /\ threads' = e.st.threads
     /\ activeId' = e.st.activeId
     /\ messagesMap' = e.st.messagesMap
     /\ store' = e.st.store
     /\ reqs' = e.reqs
     /\ pending' = Scheduled(e.st, text)

\* a handler or continuation runs only after the effects of the last commit
Ready == pending = {}

\* the passage of time between two readings of Date.now()
Tick ==
  /\ Ready
  /\ now < MaxTime
  /\ now' = now + 1
  /\ UNCHANGED <<threads, activeId, messagesMap, settings, store, input, busy, edit,
                 budgets, palette, reqs, pending, sends, last>>

\* the passive effects of the last commit: Chat's (the child) before App's
FlushEffects ==
  /\ pending /= {}
  /\ Commit([Env EXCEPT !.st = IF "active" \in pending
                               THEN EnsureActive(AppState, AppClosure, now)
                               ELSE AppState],
            IF "draft" \in pending THEN LoadDraft(AppState, activeId, input) ELSE input)
  /\ last' = IF "active" \in pending THEN Op("ensureActive", now, <<>>) ELSE last
  /\ UNCHANGED <<now, sends, edit, budgets, palette, settings, busy>>

OnNewChat ==
  /\ Ready
  /\ Len(threads) < MaxThreads
  /\ Commit([Env EXCEPT !.st = OnNewChatOp(AppState, AppClosure, messagesMap, now)], input)
  /\ last' = Op("onNewChat", now, <<>>)
  /\ UNCHANGED <<now, sends, edit, budgets, palette, settings, busy>>

\* onNewChat when localStorage.setItem('threads', ...) throws (storage
\* unavailable or quota exceeded): setThreads(nt) has been called, the
\* exception leaves the handler before setActiveId and setMessagesMap
OnNewChatStoreFails ==
  /\ Ready
  /\ Len(threads) < MaxThreads
  /\ Commit([Env EXCEPT !.st.threads = <<NewThread(now)>> \o threads], input)
  /\ last' = Op("onNewChatStoreFails", now, <<>>)
  /\ UNCHANGED <<now, sends, edit, budgets, palette, settings, busy>>

\* a click on the i-th thread of the Sidebar
OnSelectThreadAt(i) ==
  /\ Ready
  /\ Commit([Env EXCEPT !.st = OnSelectThreadOp(AppState, threads[i].id)], input)
  /\ last' = Op("onSelectThread", threads[i].id, <<>>)
  /\ UNCHANGED <<now, sends, edit, budgets, palette, settings, busy>>

OnSelectThread == \E i \in 1..Len(threads) : OnSelectThreadAt(i)

\* Sidebar's confirmed Delete, or the palette's 'Delete current chat'
DeleteThreadAt(i, eager) ==
  /\ Ready
  /\ Commit([Env EXCEPT !.st = DeleteThreadOp(AppState, AppClosure, threads[i].id, eager)], input)
  /\ last' = Op("deleteThread", threads[i].id, <<>>)
  /\ UNCHANGED <<now, sends, edit, budgets, palette, settings, busy>>

DeleteThread == \E i \in 1..Len(threads), eager \in BOOLEAN : DeleteThreadAt(i, eager)

\* Sidebar's rename field on Enter or blur: onRename(t.id, draft.trim() || 'New Chat')
RenameSidebarAt(i, draft) ==
  /\ Ready
  /\ Commit([Env EXCEPT !.st =
        RenameThreadOp(AppState, threads[i].id, OrElse(Trim(draft), SentinelTitle))], input)
  /\ last' = Op("renameSidebar", threads[i].id, draft)
  /\ UNCHANGED <<now, sends, edit, budgets, palette, settings, busy>>

RenameSidebar == \E i \in 1..Len(threads), draft \in RenameInputs : RenameSidebarAt(i, draft)

\* runRenameCurrent: renameThread(activeId, val.trim()) unless the prompt is cancelled
RenamePaletteTo(val) ==
  /\ Ready
  /\ activeId /= NoId
  /\ Commit([Env EXCEPT !.st = RenameThreadOp(AppState, activeId, Trim(val))], input)
  /\ last' = Op("renamePalette", activeId, val)
  /\ UNCHANGED <<now, sends, edit, budgets, palette, settings, busy>>

RenamePalette == \E val \in RenameInputs : RenamePaletteTo(val)

\* the pin button of the i-th thread of the Sidebar
TogglePinThreadAt(i) ==
  /\ Ready
  /\ Commit([Env EXCEPT !.st = TogglePinThreadOp(AppState, threads[i].id)], input)
  /\ last' = Op("togglePin", threads[i].id, <<>>)
  /\ UNCHANGED <<now, sends, edit, budgets, palette, settings, busy>>

TogglePinThread == \E i \in 1..Len(threads) : TogglePinThreadAt(i)

ClearAll ==
  /\ Ready
  /\ Commit([Env EXCEPT !.st = ClearAllOp(AppState)], input)
  /\ last' = Op("clearAll", NoId, <<>>)
  /\ UNCHANGED <<now, sends, edit, budgets, palette, settings, busy>>

\* changeSettings(s)
ChangeSettings(s) ==
  /\ Ready
  /\ settings' = s
  /\ store' = [store EXCEPT !.settings = Stored(s)]
  /\ last' = Op("changeSettings", NoId, <<>>)
  /\ UNCHANGED <<now, sends, edit, budgets, palette, threads, activeId, messagesMap, input, busy, reqs, pending>>

\* the settings dialog switches streaming on or off
ToggleStream ==
  ChangeSettings([settings EXCEPT !.streamResponses = ~settings.streamResponses])

\* the settings dialog switches history saving on or off
ToggleSaveHistory ==
  ChangeSettings([settings EXCEPT !.saveHistory = ~settings.saveHistory])

----------------------------------------------------------------------------
(* Chat actions *)

\* the composer's onChange: setInput(value); saveDraft(value).  The input is
\* disabled while busy.  draftKey uses threadId = activeId || 'default'.
TypeInput ==
  /\ Ready
  /\ ~busy
  /\ \E val \in Inputs :
       /\ input' = val
       /\ store' = [store EXCEPT !.drafts = Put(@, activeId, val)]
       /\ last' = Op("typeInput", activeId, val)
  /\ UNCHANGED <<now, sends, edit, budgets, palette, threads, activeId, messagesMap, settings, busy, reqs, pending>>

\* the slot a new call of send or resendWithText runs in
FreeProc(p) == reqs[p].pc = "idle" /\ \A r \in Procs : r < p => reqs[r].pc /= "idle"

\* (variant) a call that never reaches its finally block
FinishNever(env, p) == env

\* the call leaves through finally: setBusy(false)
Finish(env, p) == [env EXCEPT !.reqs[p] = IdleReq]

\* send, up to its first await.  attachedFiles is never given a file (only
\* setAttachedFiles([]) and a filter of it exist), so its branches are dead.
SendWithin(n) ==
  /\ Ready
  /\ ~busy
  /\ sends < n
  /\ \E p \in Procs :
       /\ FreeProc(p)
       /\ last' = Op("send", activeId, input)
       /\ IF Blank(input)
          THEN UNCHANGED <<threads, activeId, messagesMap, settings, store, input,
                           busy, reqs, pending, sends>>
          ELSE LET q == Trim(input)
                   r0 == [IdleReq EXCEPT
                            !.pc = IF settings.streamResponses THEN "open" ELSE "ask",
                            !.kind = "send",
                            !.base = MessagesOf(messagesMap, activeId),
                            !.cl = UpdateClosure(AppClosure),
                            !.q = q]
                   e0 == [st |-> AppState, reqs |-> [reqs EXCEPT ![p] = r0]]
                   e1 == AppendMessage(e0, p, "user", q, NoTool, now)
                   e2 == [e1 EXCEPT !.st.store.drafts = Put(@, activeId, <<>>)]
                   e3 == IF settings.streamResponses
                         THEN AppendMessage(e2, p, "assistant", <<>>, NoTool, now)
                         ELSE e2
               IN /\ Commit(e3, <<>>)
                  /\ busy' = TRUE
                  /\ sends' = sends + 1
                  /\ UNCHANGED settings
  /\ UNCHANGED <<now, budgets, palette, edit>>

\* fetch('/api/ask/stream') answers with a body whose text is one of S
StreamOpenFrom(S) ==
  /\ Ready
  /\ \E p \in Procs, text \in S :
       /\ reqs[p].pc = "open"
       /\ reqs' = [reqs EXCEPT ![p].pc = "read", ![p].rest = text, ![p].buf = <<>>]
       /\ last' = Op("streamOpen", p, <<>>)
  /\ UNCHANGED <<now, sends, edit, budgets, palette, threads, activeId, messagesMap, settings, store, input, busy, pending>>

\* fetch rejects, or !resp.ok || !resp.body, or reader.read() rejects: the
\* catch block of send awaits apiAsk; the one of resendWithText reports
StreamFail ==
  /\ Ready
  /\ \E p \in Procs :
       /\ reqs[p].pc \in {"open", "read"}
       /\ last' = Op("streamFail", p, <<>>)
       /\ IF reqs[p].kind = "send"
          THEN /\ reqs' = [reqs EXCEPT ![p].pc = "fallback", ![p].from = reqs[p].pc]
               /\ UNCHANGED <<threads, activeId, messagesMap, store, input, busy, pending>>
          ELSE /\ Commit(Finish(AppendMessage(Env, p, "assistant", CheckApiKey, NoTool, now), p), input)
               /\ busy' = FALSE
  /\ UNCHANGED <<now, sends, edit, budgets, palette, settings>>

\* reader.read() delivers the next n symbols of the response, n one of Sizes,
\* or all that is left when that is less
StreamReadBy(Sizes) ==
  /\ Ready
  /\ \E p \in Procs :
       /\ reqs[p].pc = "read"
       /\ reqs[p].rest /= <<>>
       /\ \E n \in {IF k < Len(reqs[p].rest) THEN k ELSE Len(reqs[p].rest) : k \in Sizes} :
            \E d \in {Drain(Env, p, reqs[p].buf \o SubSeq(reqs[p].rest, 1, n), FALSE, now)} :
            LET left == SubSeq(reqs[p].rest, n + 1, Len(reqs[p].rest))
            IN /\ last' = Op("streamRead", p, <<>>)
               /\ IF d.ended
                  THEN /\ Commit(Finish(d.env, p), input)
                       /\ busy' = FALSE
                  ELSE /\ Commit([d.env EXCEPT !.reqs[p].rest = left, !.reqs[p].buf = d.buf], input)
                       /\ UNCHANGED busy
  /\ UNCHANGED <<now, sends, edit, budgets, palette, settings>>

\* reader.read() reports done: the body has ended
StreamEnd ==
  /\ Ready
  /\ \E p \in Procs :
       /\ reqs[p].pc = "read"
       /\ reqs[p].rest = <<>>
       /\ Commit(Finish(Env, p), input)
       /\ last' = Op("streamEnd", p, <<>>)
  /\ busy' = FALSE
  /\ UNCHANGED <<now, sends, edit, budgets, palette, settings>>

\* apiAsk of the non-streaming branch resolves
AskOk ==
  /\ Ready
  /\ \E p \in Procs, answer \in Answers :
       /\ reqs[p].pc = "ask"
       /\ Commit(Finish(IF reqs[p].kind = "send"
                        THEN AppendMessage(Env, p, "assistant", answer, NoTool, now)
                        ELSE TruncateAppend(Env, p, answer, now), p), input)
       /\ last' = Op("askOk", p, answer)
  /\ busy' = FALSE
  /\ UNCHANGED <<now, sends, edit, budgets, palette, settings>>

\* apiAsk of the non-streaming branch rejects
AskFail ==
  /\ Ready
  /\ \E p \in Procs :
       /\ reqs[p].pc = "ask"
       /\ last' = Op("askFail", p, <<>>)
       /\ IF reqs[p].kind = "send"
          THEN /\ reqs' = [reqs EXCEPT ![p].pc = "fallback", ![p].from = "ask"]
               /\ UNCHANGED <<threads, activeId, messagesMap, store, input, busy, pending>>
          ELSE /\ Commit(Finish(AppendMessage(Env, p, "assistant", CheckApiKey, NoTool, now), p), input)
               /\ busy' = FALSE
  /\ UNCHANGED <<now, sends, edit, budgets, palette, settings>>

\* apiAsk of send's catch block resolves
FallbackOk ==
  /\ Ready
  /\ \E p \in Procs, answer \in Answers :
       /\ reqs[p].pc = "fallback"
       /\ Commit(Finish(FillOrAppend(Env, p, answer, now), p), input)
       /\ last' = Op("fallbackOk", p, answer)
  /\ busy' = FALSE
  /\ UNCHANGED <<now, sends, edit, budgets, palette, settings>>

\* apiAsk of send's catch block rejects
FallbackFail ==
  /\ Ready
  /\ \E p \in Procs :
       /\ reqs[p].pc = "fallback"
       /\ Commit(Finish(AppendMessage(Env, p, "assistant", CheckApiKey, NoTool, now), p), input)
       /\ last' = Op("fallbackFail", p, <<>>)
  /\ busy' = FALSE
  /\ UNCHANGED <<now, sends, edit, budgets, palette, settings>>

\* resendWithText(idx, q), called by a handler of the current render after
\* that handler has brought the App state to e.st.  analytics is null (no
\* file is ever attached), so the data-quality branch is dead.
ResendWithText(e, idx, q) ==
  IF Blank(q)
  THEN /\ Commit(e, input)
       /\ UNCHANGED <<busy, sends>>
  ELSE \E p \in Procs :
         /\ FreeProc(p)
         /\ LET r0 == [IdleReq EXCEPT
                        !.pc = IF settings.streamResponses THEN "open" ELSE "ask",
                        !.kind = "resend",
                        !.base = MessagesOf(messagesMap, activeId),
                        !.cl = UpdateClosure(AppClosure),
                        !.q = Trim(q),
                        !.idx = idx]
                e0 == [e EXCEPT !.reqs[p] = r0]
                e1 == IF settings.streamResponses
                      THEN TruncateAppend(e0, p, <<>>, now)
                      ELSE e0
            IN Commit(e1, input)
         /\ busy' = TRUE
         /\ sends' = sends + 1

\* the user messages of the rendered list, by index from 0
UserIdxs == {i \in 0..(Len(MessagesOf(messagesMap, activeId)) - 1) :
               MessagesOf(messagesMap, activeId)[i + 1].role = "user"}

\* the Resend link of a user message that is not being edited: quickResend
QuickResend ==
  /\ Ready
  /\ sends < MaxCalls
  /\ \E idx \in UserIdxs \ {edit.idx} :
       LET q == MessagesOf(messagesMap, activeId)[idx + 1].content
       IN /\ ResendWithText(Env, idx, q)
          /\ last' = Op("quickResend", idx, q)
  /\ UNCHANGED <<now, budgets, palette, edit, settings>>

\* the Regenerate button of a message that is not a user message and has a
\* user message before it
Regenerate ==
  /\ Ready
  /\ sends < MaxCalls
  /\ \E j \in 0..(Len(MessagesOf(messagesMap, activeId)) - 1) :
       /\ j \notin UserIdxs
       /\ {i \in UserIdxs : i < j} /= {}
       /\ LET prevUserIdx == SetMax({i \in UserIdxs : i < j})
              q == MessagesOf(messagesMap, activeId)[prevUserIdx + 1].content
          IN /\ ResendWithText(Env, prevUserIdx, q)
             /\ last' = Op("regenerate", prevUserIdx, q)
  /\ UNCHANGED <<now, budgets, palette, edit, settings>>

\* the Edit link of a user message: startEdit
StartEdit ==
  /\ Ready
  /\ \E idx \in UserIdxs \ {edit.idx} :
       /\ edit' = [idx |-> idx, draft |-> MessagesOf(messagesMap, activeId)[idx + 1].content]
       /\ last' = Op("startEdit", idx, <<>>)
  /\ UNCHANGED <<now, sends, budgets, palette, threads, activeId, messagesMap, settings, store, input, busy,
                 reqs, pending>>

\* the edit textarea's onChange: setEditDraft(value)
TypeEdit ==
  /\ Ready
  /\ edit.idx \in UserIdxs
  /\ \E val \in EditInputs :
       /\ edit' = [edit EXCEPT !.draft = val]
       /\ last' = Op("typeEdit", edit.idx, val)
  /\ UNCHANGED <<now, sends, budgets, palette, threads, activeId, messagesMap, settings, store, input, busy,
                 reqs, pending>>

\* cancelEdit
CancelEdit ==
  /\ Ready
  /\ edit.idx \in UserIdxs
  /\ edit' = NoEdit
  /\ last' = Op("cancelEdit", edit.idx, <<>>)
  /\ UNCHANGED <<now, sends, budgets, palette, threads, activeId, messagesMap, settings, store, input, busy,
                 reqs, pending>>

\* Save & Resend of the message being edited: saveAndResend(idx)
SaveAndResend ==
  /\ Ready
  /\ sends < MaxCalls
  /\ edit.idx \in UserIdxs
  /\ last' = Op("saveAndResend", edit.idx, edit.draft)
  /\ IF Blank(edit.draft)
     THEN UNCHANGED <<threads, activeId, messagesMap, store, input, busy, edit, reqs,
                      pending, sends>>
     ELSE LET newQ == Trim(edit.draft)
              M == MessagesOf(messagesMap, activeId)
              st1 == UpdateMessages(AppState, UpdateClosure(AppClosure),
                                    ReplaceAt(Env, M, edit.idx, newQ), now)
          IN /\ ResendWithText([Env EXCEPT !.st = st1], edit.idx, newQ)
             /\ edit' = NoEdit
  /\ UNCHANGED <<now, budgets, palette, settings>>

Send == SendWithin(MaxSends)

\* send in a run that allows a second call
SendAgain == SendWithin(MaxCalls)

StreamOpen == StreamOpenFrom(Streams)

\* reads that deliver one or two whole frames
StreamRead == StreamReadBy({Len(DoneFrame), 2 * Len(DoneFrame)})

Next ==
  \/ Tick
  \/ FlushEffects
  \/ OnNewChat
  \/ OnSelectThread
  \/ DeleteThread
  \/ ClearAll
  \/ ToggleStream
  \/ TypeInput
  \/ Send
  \/ StreamOpen
  \/ StreamFail
  \/ StreamRead
  \/ StreamEnd
  \/ AskOk
  \/ AskFail
  \/ FallbackOk
  \/ FallbackFail

Spec == Init /\ [][Next]_vars

\* the thread registry alone: no conversation takes place
NextThreads ==
  \/ Tick
  \/ FlushEffects
  \/ OnNewChat
  \/ OnSelectThread
  \/ DeleteThread
  \/ RenameSidebar
  \/ RenamePalette
  \/ TogglePinThread
  \/ ClearAll

SpecThreads == Init /\ [][NextThreads]_vars

\* A thread an earlier session left in localStorage: created at c, last
\* updated at u.  Date.now() never goes back, so u >= c.
StoredThread(c, u) ==
  [id |-> c, title |-> SentinelTitle, createdAt |-> c, updatedAt |-> u, pinned |-> FALSE]

\* The registries an earlier session can leave: threads are only ever added
\* at the front, so storage order is newest first.
RECURSIVE StoredLists(_)
StoredLists(c) ==
  IF c = 0 THEN {<<>>}
  ELSE LET older == StoredLists(c - 1)
       IN older \cup {<<StoredThread(c, u)>> \o ts : u \in c..MaxStored, ts \in older}

StoredSessions ==
  {[EmptyStore EXCEPT !.threads = Stored(ts),
                      !.active_thread = Stored(ts[i].id),
                      !.messages_map = Stored([x \in ThreadIds(ts) |-> <<>>])] :
     ts \in {l \in StoredLists(MaxStored) : Len(l) = MaxStored}, i \in 1..MaxStored}

\* a later visit: localStorage holds the registry of an earlier session
InitStored == \E s \in StoredSessions : InitFrom(s, MaxStored + 1)

\* the Sidebar over a stored registry
NextStored ==
  \/ FlushEffects
  \/ OnSelectThread
  \/ DeleteThread
  \/ TogglePinThread

SpecStored == InitStored /\ [][NextStored]_vars

\* A conversation an earlier session left in localStorage, in one thread
\* titled after its first user message.
StoredTalk ==
  <<Msg("user", <<"A">>, NoTool, 0), Msg("assistant", <<"B">>, NoTool, 0),
    Msg("user", <<"C">>, NoTool, 0), Msg("assistant", <<"D">>, NoTool, 0)>>

TalkSession ==
  [EmptyStore EXCEPT !.threads = Stored(<<[StoredThread(1, 1) EXCEPT !.title = <<"A">>]>>),
                     !.active_thread = Stored(1),
                     !.messages_map = Stored([x \in {1} |-> StoredTalk])]

InitTalk == InitFrom(TalkSession, MaxTime)

\* the conversation: send, resend and regenerate over a stored thread
NextTalk ==
  \/ ToggleStream
  \/ TypeInput
  \/ SendAgain
  \/ QuickResend
  \/ Regenerate
  \/ StreamOpen
  \/ StreamFail
  \/ StreamRead
  \/ StreamEnd
  \/ AskOk
  \/ AskFail
  \/ FallbackOk
  \/ FallbackFail

SpecTalk == InitTalk /\ [][NextTalk]_vars

\* a stored conversation goes on while the user works in the sidebar:
\* another thread is opened or selected, the thread is deleted
NextAway ==
  \/ FlushEffects
  \/ OnNewChat
  \/ OnSelectThread
  \/ DeleteThread
  \/ TypeInput
  \/ Send
  \/ StreamOpen
  \/ StreamRead
  \/ StreamEnd

SpecAway == InitTalk /\ [][NextAway]_vars

StreamOpenEvents == StreamOpenFrom(EventStreams)

\* a stored conversation goes on with sends and resends whose streams carry
\* events of every type, or fail
NextEvents ==
  \/ TypeInput
  \/ SendAgain
  \/ QuickResend
  \/ StreamOpenEvents
  \/ StreamFail
  \/ StreamRead
  \/ StreamEnd
  \/ FallbackOk
  \/ FallbackFail

SpecEvents == InitTalk /\ [][NextEvents]_vars

StreamOpenChunks == StreamOpenFrom(ChunkStreams)

\* reads that end inside a frame, inside the boundary, or after the last symbol
StreamReadChunks == StreamReadBy({1, 3, 7, Len(TokenA \o TokenB \o DoneFrame)})

\* sends whose streams arrive in chunks of several sizes
NextChunks ==
  \/ TypeInput
  \/ SendAgain
  \/ StreamOpenChunks
  \/ StreamReadChunks
  \/ StreamEnd

SpecChunks == InitTalk /\ [][NextChunks]_vars

\* renaming a thread while a send in it is in flight
NextRename ==
  \/ RenameSidebar
  \/ TypeInput
  \/ Send
  \/ StreamOpen
  \/ StreamRead
  \/ StreamEnd

SpecRename == InitTalk /\ [][NextRename]_vars

\* a step of a call in flight: a network call returns or fails
NetworkReturns ==
  \/ StreamOpen
  \/ StreamFail
  \/ StreamRead
  \/ StreamEnd
  \/ AskOk
  \/ AskFail
  \/ FallbackOk
  \/ FallbackFail

\* the stored conversation with streaming left on or switched off earlier
InitCalls ==
  \E on \in BOOLEAN :
     InitFrom([TalkSession EXCEPT
                 !.settings = Stored([DefaultSettings EXCEPT !.streamResponses = on])],
              MaxTime)

\* one send and the resends of a user message, each call to its end
NextCalls ==
  \/ TypeInput
  \/ Send
  \/ QuickResend
  \/ NetworkReturns

\* every network call eventually returns or fails
SpecCallsFair == InitCalls /\ [][NextCalls]_vars /\ WF_vars(NetworkReturns)

\* renaming a thread while resends of its messages are in flight
NextTitle ==
  \/ RenameSidebar
  \/ QuickResend
  \/ StreamOpen
  \/ StreamFail
  \/ StreamRead
  \/ StreamEnd
  \/ AskOk
  \/ AskFail

SpecTitle == InitCalls /\ [][NextTitle]_vars

\* the thread registry while history saving is switched off and on
NextPrivate ==
  \/ FlushEffects
  \/ ToggleSaveHistory
  \/ OnNewChat
  \/ OnSelectThread
  \/ DeleteThread
  \/ RenameSidebar
  \/ TogglePinThread

SpecPrivate == Init /\ [][NextPrivate]_vars

\* the thread registry over a store whose writes can fail
NextQuota ==
  \/ Tick
  \/ FlushEffects
  \/ OnNewChat
  \/ OnNewChatStoreFails
  \/ OnSelectThread
  \/ DeleteThread
  \/ TogglePinThread

SpecQuota == Init /\ [][NextQuota]_vars

\* What an earlier session can leave under each key: nothing, a value, or
\* a text cut short.
StoredOrBroken(v) == {Absent, Stored(v), Truncated(v)}

BrokenSessions ==
  {[EmptyStore EXCEPT !.threads = ts, !.active_thread = a, !.messages_map = mm,
                      !.settings = se, !.budgets = b] :
     ts \in StoredOrBroken(<<StoredThread(1, 1)>>),
     a \in {Absent, Stored(1)},
     mm \in StoredOrBroken([x \in {1} |-> SubSeq(StoredTalk, 1, 2)]),
     se \in StoredOrBroken([saveHistory |-> FALSE, streamResponses |-> FALSE]),
     b \in StoredOrBroken([c \in {"food"} |-> 1])}

\* startup over a store with missing and undecodable values
InitBroken == \E s \in BrokenSessions : InitFrom(s, MaxTime)

NextBroken ==
  \/ FlushEffects
  \/ OnSelectThread
  \/ TogglePinThread
  \/ ToggleSaveHistory

SpecBroken == InitBroken /\ [][NextBroken]_vars

StreamOpenJunk == StreamOpenFrom(JunkStreams)

\* reads of three or of seven symbols: chunks end inside frames
StreamReadJunk == StreamReadBy({3, 7})

\* streams that carry frames to be skipped, read in chunks that cut frames
NextFrames ==
  \/ TypeInput
  \/ SendAgain
  \/ QuickResend
  \/ StreamOpenJunk
  \/ StreamReadJunk
  \/ StreamEnd

SpecFrames == InitTalk /\ [][NextFrames]_vars

StreamOpenLate == StreamOpenFrom(LateStreams)

\* streams that go on after done, read one or two frames at a time
NextDone ==
  \/ TypeInput
  \/ SendAgain
  \/ QuickResend
  \/ StreamOpenLate
  \/ StreamRead
  \/ StreamEnd

SpecDone == InitTalk /\ [][NextDone]_vars

----------------------------------------------------------------------------
(* Command palette *)

\* the commands of App, in order.  The title of the model command is the one
\* of the default llmModel, a setting this model does not carry.
Commands ==
  <<[id |-> "new", title |-> <<"N", "e", "w", " ", "c", "h", "a", "t">>, hint |-> <<"N">>],
    [id |-> "rename", title |-> <<"R", "e", "n", "a", "m", "e", " ", "c", "u", "r", "r", "e", "n", "t", " ", "c", "h", "a", "t">>, hint |-> <<>>],
    [id |-> "delete", title |-> <<"D", "e", "l", "e", "t", "e", " ", "c", "u", "r", "r", "e", "n", "t", " ", "c", "h", "a", "t">>, hint |-> <<>>],
    [id |-> "llm", title |-> <<"C", "h", "e", "c", "k", " ", "L", "L", "M", " ", "s", "t", "a", "t", "u", "s">>, hint |-> <<>>],
    [id |-> "model", title |-> <<"T", "o", "g", "g", "l", "e", " ", "m", "o", "d", "e", "l", " ", "(", "g", "p", "t", "-", "4", "o", "-", "m", "i", "n", "i", ")">>, hint |-> <<>>],
    [id |-> "settings", title |-> <<"O", "p", "e", "n", " ", "S", "e", "t", "t", "i", "n", "g", "s">>, hint |-> <<>>]>>

UpperLetters == <<"A", "B", "C", "D", "E", "F", "G", "H", "I", "J", "K", "L", "M", "N", "O", "P", "Q", "R", "S", "T", "U", "V", "W", "X", "Y", "Z">>

LowerLetters == <<"a", "b", "c", "d", "e", "f", "g", "h", "i", "j", "k", "l", "m", "n", "o", "p", "q", "r", "s", "t", "u", "v", "w", "x", "y", "z">>

\* toLowerCase
ToLowerCase(str) ==
  [i \in 1..Len(str) |->
      IF \E k \in 1..Len(UpperLetters) : UpperLetters[k] = str[i]
      THEN LowerLetters[CHOOSE k \in 1..Len(UpperLetters) : UpperLetters[k] = str[i]]
      ELSE str[i]]

\* hay.includes(needle)
Includes(hay, needle) ==
  \E i \in 1..(Len(hay) - Len(needle) + 1) : SubSeq(hay, i, i + Len(needle) - 1) = needle

\* filtered: the positions in Commands of the commands the query keeps
Filtered(query) ==
  LET q == Trim(ToLowerCase(query))
  IN {c \in 1..Len(Commands) :
        \/ q = <<>>
        \/ Includes(ToLowerCase(Commands[c].title), q)
        \/ Includes(ToLowerCase(Commands[c].hint), q)}

\* filtered[i], i counted from 0: a position in Commands, 0 for undefined
FilteredAt(query, i) ==
  LET hits == {c \in Filtered(query) : Cardinality({d \in Filtered(query) : d < c}) = i}
  IN IF hits = {} THEN 0 ELSE SetMin(hits)

\* what the user types into the palette's field
Queries == {<<>>, <<"N", "e", "w">>, <<"c", "h">>, <<"z", "z">>}

\* item.action() for the command at position c of the commands of a render
\* with closure cl and message map clMap.  val is the answer to
\* window.prompt.  Checking the LLM, toggling the model and opening the
\* settings change nothing this model carries.
RunCommand(st, cl, clMap, c, val, eager, t) ==
  IF Commands[c].id = "new" THEN OnNewChatOp(st, cl, clMap, t)
  ELSE IF Commands[c].id = "rename" /\ cl.activeId /= NoId
       THEN RenameThreadOp(st, cl.activeId, Trim(val))
  ELSE IF Commands[c].id = "delete" /\ cl.activeId /= NoId
       THEN DeleteThreadOp(st, cl, cl.activeId, eager)
  ELSE st

\* onNewChat is explored while the registry has fewer threads than MaxThreads
Runnable(c) == Commands[c].id = "new" => Len(threads) < MaxThreads

\* Ctrl+K or Cmd+K: setPaletteOpen(true); the effect on [open] resets query and idx
OpenPalette ==
  /\ Ready
  /\ ~palette.open
  /\ palette' = [palette EXCEPT !.open = TRUE, !.query = <<>>, !.idx = 0]
  /\ last' = Op("openPalette", NoId, <<>>)
  /\ UNCHANGED <<now, sends, edit, budgets, threads, activeId, messagesMap, settings, store,
                 input, busy, reqs, pending>>

\* the palette field's onChange: setQuery(value)
PaletteType ==
  /\ Ready
  /\ palette.open
  /\ \E q \in Queries :
       /\ palette' = [palette EXCEPT !.query = q]
       /\ last' = Op("paletteType", NoId, q)
  /\ UNCHANGED <<now, sends, edit, budgets, threads, activeId, messagesMap, settings, store,
                 input, busy, reqs, pending>>

\* ArrowDown: setIdx(i => Math.min(i+1, Math.max(0, filtered.length-1)))
PaletteDown ==
  /\ Ready
  /\ palette.open
  /\ palette' = [palette EXCEPT !.idx =
        LET top == IF Cardinality(Filtered(palette.query)) - 1 > 0
                   THEN Cardinality(Filtered(palette.query)) - 1 ELSE 0
        IN IF palette.idx + 1 < top THEN palette.idx + 1 ELSE top]
  /\ last' = Op("paletteDown", NoId, <<>>)
  /\ UNCHANGED <<now, sends, edit, budgets, threads, activeId, messagesMap, settings, store,
                 input, busy, reqs, pending>>

\* ArrowUp: setIdx(i => Math.max(i-1, 0))
PaletteUp ==
  /\ Ready
  /\ palette.open
  /\ palette' = [palette EXCEPT !.idx = IF palette.idx - 1 > 0 THEN palette.idx - 1 ELSE 0]
  /\ last' = Op("paletteUp", NoId, <<>>)
  /\ UNCHANGED <<now, sends, edit, budgets, threads, activeId, messagesMap, settings, store,
                 input, busy, reqs, pending>>

\* Escape, or a click on the backdrop: onClose()
PaletteEscape ==
  /\ Ready
  /\ palette.open
  /\ palette' = [palette EXCEPT !.open = FALSE]
  /\ last' = Op("paletteEscape", NoId, <<>>)
  /\ UNCHANGED <<now, sends, edit, budgets, threads, activeId, messagesMap, settings, store,
                 input, busy, reqs, pending>>

\* Enter: const item = filtered[idx]
\*        if (item) { onClose(); setTimeout(()=>item.action(), 0) }
PaletteEnter ==
  /\ Ready
  /\ palette.open
  /\ palette.timer = NoTimer
  /\ LET item == FilteredAt(palette.query, palette.idx)
     IN /\ item /= 0 => Runnable(item)
        /\ palette' = IF item = 0 THEN palette
                      ELSE [palette EXCEPT !.open = FALSE,
                                           !.timer = [cmd |-> item, cl |-> AppClosure,
                                                      map |-> messagesMap]]
        /\ last' = Op("paletteEnter", item, <<>>)
  /\ UNCHANGED <<now, sends, edit, budgets, threads, activeId, messagesMap, settings, store,
                 input, busy, reqs, pending>>

\* the timer set by Enter fires: item.action() of the render that set it
PaletteTimer ==
  /\ Ready
  /\ palette.timer /= NoTimer
  /\ Runnable(palette.timer.cmd)
  /\ \E val \in RenameInputs, eager \in BOOLEAN :
       Commit([Env EXCEPT !.st = RunCommand(AppState, palette.timer.cl, palette.timer.map,
                                            palette.timer.cmd, val, eager, now)], input)
  /\ palette' = [palette EXCEPT !.timer = NoTimer]
  /\ last' = Op("paletteTimer", palette.timer.cmd, <<>>)
  /\ UNCHANGED <<now, sends, edit, budgets, settings, busy>>

\* a click on an entry of the list: onClose(); c.action()
PaletteClick ==
  /\ Ready
  /\ palette.open
  /\ \E c \in Filtered(palette.query), val \in RenameInputs, eager \in BOOLEAN :
       /\ Runnable(c)
       /\ Commit([Env EXCEPT !.st = RunCommand(AppState, AppClosure, messagesMap,
                                               c, val, eager, now)], input)
       /\ last' = Op("paletteClick", c, <<>>)
  /\ palette' = [palette EXCEPT !.open = FALSE]
  /\ UNCHANGED <<now, sends, edit, budgets, settings, busy>>

\* the command palette over the thread registry
NextPalette ==
  \/ FlushEffects
  \/ OpenPalette
  \/ PaletteType
  \/ PaletteDown
  \/ PaletteUp
  \/ PaletteEscape
  \/ PaletteEnter
  \/ PaletteTimer
  \/ PaletteClick

SpecPalette == Init /\ [][NextPalette]_vars

----------------------------------------------------------------------------

\* editing a user message of a stored thread and resending it
NextEdit ==
  \/ ToggleStream
  \/ StartEdit
  \/ TypeEdit
  \/ CancelEdit
  \/ SaveAndResend
  \/ StreamOpen
  \/ StreamFail
  \/ StreamRead
  \/ StreamEnd
  \/ AskOk
  \/ AskFail

SpecEdit == InitTalk /\ [][NextEdit]_vars

----------------------------------------------------------------------------
(* Properties *)

\* the roles and contents of a message list, in order
Shape(msgs) == [i \in 1..Len(msgs) |-> <<msgs[i].role, msgs[i].content>>]

\* C1: once the ensure-active effect has run, the active id names a thread of
\* the list, or is null only when the list is empty; an effect run that finds
\* a stale active id leaves an active id that names a thread.
C1_ActiveIdValid ==
  /\ [](Ready => \/ activeId \in ThreadIds(threads)
                 \/ (activeId = NoId /\ threads = <<>>))
  /\ [][(FlushEffects /\ activeId \notin ThreadIds(threads))
          => activeId' \in ThreadIds(threads')]_vars

\* C1 witness: the effect has just replaced the id of a deleted thread while
\* other threads remain
C1_StaleIdReplaced ==
  /\ Ready
  /\ last.op = "ensureActive"
  /\ Len(threads) >= 2
  /\ activeId = threads[1].id

\* C2: right after onNewChat the new thread is active, is first in storage
\* and has an empty message list, and every earlier thread and its message
\* list are unchanged.
C2_NewChatPost ==
  [][OnNewChat =>
       /\ Len(threads') = Len(threads) + 1
       /\ Tail(threads') = threads
       /\ activeId' = threads'[1].id
       /\ activeId' \in DOMAIN messagesMap'
       /\ messagesMap'[activeId'] = <<>>
       /\ \A i \in 1..Len(threads) :
            MessagesOf(messagesMap', threads[i].id) = MessagesOf(messagesMap, threads[i].id)]_vars

\* C3: no two threads of the registry have the same id.
C3_UniqueIds ==
  \A i, j \in 1..Len(threads) : i /= j => threads[i].id /= threads[j].id

\* C4: deleting the active thread makes the first thread of the remaining
\* threads in sorted order active, or none when no thread remains; deleting
\* another thread leaves the active id unchanged.  (Stated for the case that
\* the setThreads updater runs during the call.)
C4_DeleteNextActive ==
  [][\A i \in 1..Len(threads) :
       DeleteThreadAt(i, TRUE) =>
         IF threads[i].id = activeId
         THEN activeId' = (IF threads' = <<>> THEN NoId ELSE Sorted(threads')[1].id)
         ELSE activeId' = activeId]_vars

\* the title the claim expects after a rename with the input txt
TitleAfter(txt) == IF \A k \in 1..Len(txt) : IsWs(txt[k]) THEN SentinelTitle ELSE Trim(txt)

RenamePost(id, txt) ==
  /\ Len(threads') = Len(threads)
  /\ \A j \in 1..Len(threads) :
       /\ threads'[j] = IF threads[j].id = id
                        THEN [threads[j] EXCEPT !.title = TitleAfter(txt)]
                        ELSE threads[j]
       /\ threads[j].id = id =>
            \E k \in 1..Len(threads'[j].title) : ~IsWs(threads'[j].title[k])
  /\ store'.threads = Stored(threads')

\* C5: on both rename paths an empty or whitespace-only input leaves the
\* title 'New Chat', any other input sets the (trimmed) title, the stored
\* title is never empty or whitespace-only, and threads with other ids are
\* unchanged.
C5_RenameNeverBlank ==
  [][/\ \A i \in 1..Len(threads) : \A draft \in RenameInputs :
          RenameSidebarAt(i, draft) => RenamePost(threads[i].id, draft)
     /\ \A val \in RenameInputs :
          RenamePaletteTo(val) => RenamePost(activeId, val)]_vars

\* C5 witness: the palette rename has run with a blank input and the thread
\* carries the sentinel title
C5_BlankRenameDone ==
  /\ last.op = "renamePalette"
  /\ last.txt = <<" ">>
  /\ \E j \in 1..Len(threads) : threads[j].id = last.id /\ threads[j].title = SentinelTitle

\* C6: togglePin flips the pinned flag of the thread with the id and changes
\* nothing else (no other field, no other thread, not the active id, no
\* message list); two toggles restore the registry.
C6_TogglePinFrame ==
  /\ [](\A i \in 1..Len(threads) :
          TogglePinThreadOp(TogglePinThreadOp(AppState, threads[i].id), threads[i].id).threads
            = threads)
  /\ [][\A i \in 1..Len(threads) :
          TogglePinThreadAt(i) =>
            /\ Len(threads') = Len(threads)
            /\ \A j \in 1..Len(threads) :
                 threads'[j] = IF threads[j].id = threads[i].id
                               THEN [threads[j] EXCEPT !.pinned = ~threads[j].pinned]
                               ELSE threads[j]
            /\ activeId' = activeId
            /\ messagesMap' = messagesMap]_vars

\* C6 witness: a thread has just been pinned while a thread with another id
\* exists
C6_Pinned ==
  /\ last.op = "togglePin"
  /\ \E j, k \in 1..Len(threads) :
       threads[j].id = last.id /\ threads[j].pinned /\ threads[k].id /= last.id

\* the sort key of the claim: max(updatedAt, createdAt), updatedAt absent as 0
KeyMax(t) == IF t.updatedAt > t.createdAt THEN t.updatedAt ELSE t.createdAt

ExampleThread(id, time, pinned) ==
  [id |-> id, title |-> SentinelTitle, createdAt |-> time, updatedAt |-> time, pinned |-> pinned]

\* C7: the displayed order is a permutation of the thread list in which every
\* pinned thread precedes every unpinned one and threads of the same pinned
\* value are in descending max(updatedAt, createdAt); A(unpinned, 5),
\* B(pinned, 1), C(unpinned, 10) is displayed as [B, C, A].
C7_SortPolicy ==
  LET s == Sorted(threads)
  IN /\ Len(s) = Len(threads)
     /\ \A i \in 1..Len(threads) :
          Cardinality({j \in 1..Len(s) : s[j] = threads[i]})
            = Cardinality({j \in 1..Len(threads) : threads[j] = threads[i]})
     /\ \A i, j \in 1..Len(s) :
          i < j => /\ s[i].pinned \/ ~s[j].pinned
                   /\ s[i].pinned = s[j].pinned => KeyMax(s[i]) >= KeyMax(s[j])
     /\ Sorted(<<ExampleThread(1, 5, FALSE), ExampleThread(2, 1, TRUE), ExampleThread(3, 10, FALSE)>>)
          = <<ExampleThread(2, 1, TRUE), ExampleThread(3, 10, FALSE), ExampleThread(1, 5, FALSE)>>

\* C7 witness: three threads, the pinned one with the smallest key is shown
\* first, and the displayed order differs from the storage order
C7_PinnedOldestFirst ==
  /\ Len(threads) = 3
  /\ last.op = "togglePin"
  /\ Sorted(threads) /= threads
  /\ LET s == Sorted(threads)
     IN /\ s[1].pinned /\ ~s[2].pinned /\ ~s[3].pinned
        /\ KeyMax(s[1]) < KeyMax(s[3])
        /\ KeyMax(s[3]) < KeyMax(s[2])

\* C8: send with an empty or whitespace-only input changes nothing: no
\* message, busy not set, no request, threads, messages and drafts unchanged.
C8_BlankSendNoOp ==
  [][(Send /\ \A k \in 1..Len(input) : IsWs(input[k]))
       => UNCHANGED <<threads, activeId, messagesMap, settings, store, input, busy,
                      edit, reqs, pending, sends>>]_vars

\* C8 witness: send has run on a whitespace-only input and nothing is in
\* flight
C8_BlankSendDone ==
  /\ last.op = "send"
  /\ last.txt = <<" ">>
  /\ input = <<" ">>
  /\ ~busy
  /\ \A p \in Procs : reqs[p].pc = "idle"

\* C9: when a streaming send(q) on a thread with messages P has read token
\* events h, i and then done, the thread's list is P, one user message q and
\* one assistant message hi.
C9_StreamedReply ==
  [][\A p \in Procs :
       (StreamRead /\ reqs[p].pc = "read" /\ reqs[p].kind = "send" /\ reqs'[p].pc = "idle")
         => Shape(MessagesOf(messagesMap', reqs[p].cl.activeId))
              = Shape(reqs[p].base) \o <<<<"user", reqs[p].q>>, <<"assistant", <<"h", "i">>>>>>]_vars

\* C10: when opening the stream fails and the single-shot request answers,
\* the thread's list is P, one user message q and one assistant message with
\* the answer.
C10_FallbackReply ==
  [][\A p \in Procs :
       (FallbackOk /\ reqs[p].pc = "fallback" /\ reqs[p].from = "open")
         => Shape(MessagesOf(messagesMap', reqs[p].cl.activeId))
              = Shape(reqs[p].base) \o <<<<"user", reqs[p].q>>, <<"assistant", last'.txt>>>>]_vars

\* C11: when the stream and then the single-shot fallback of a send have
\* failed, the thread's list is the list as it was with one assistant message
\* carrying the check-your-API-key text appended, the call is over and busy is
\* false (so that send is enabled again).
C11_TotalFailure ==
  [][\A p \in Procs :
       (FallbackFail /\ reqs[p].pc = "fallback")
         => /\ Shape(MessagesOf(messagesMap', reqs[p].cl.activeId))
                 = Shape(MessagesOf(messagesMap, reqs[p].cl.activeId))
                     \o <<<<"assistant", CheckApiKey>>>>
            /\ reqs'[p].pc = "idle"
            /\ busy' = FALSE]_vars

\* C12: a call of send or resendWithText that is in flight eventually ends,
\* and the step that ends it sets busy to false, whichever way it ends.
C12_BusyCleared ==
  /\ \A p \in Procs : (reqs[p].pc /= "idle") ~> (reqs[p].pc = "idle")
  /\ [][\A p \in Procs :
          (reqs[p].pc /= "idle" /\ reqs'[p].pc = "idle") => busy' = FALSE]_vars

\* C12 witness: a resend and a send have been started, the send has just
\* ended in total failure (stream and fallback failed), no call is in flight
\* and busy is false
C12_AllEnded ==
  /\ sends = MaxCalls
  /\ last.op = "fallbackFail"
  /\ \A p \in Procs : reqs[p].pc = "idle"
  /\ ~busy

\* C13: no two calls of send or resendWithText are in flight on the same
\* thread at the same time.
C13_OneOutstanding ==
  \A p, r \in Procs :
     (p /= r /\ reqs[p].pc /= "idle" /\ reqs[r].pc /= "idle")
       => reqs[p].cl.activeId /= reqs[r].cl.activeId

\* C14: when a call resendWithText(idx, q) made on the list M ends, by
\* success or by failure, the thread's list is M[0..idx] followed by exactly
\* one assistant message.
C14_ResendResult ==
  [][\A p \in Procs :
       (reqs[p].kind = "resend" /\ reqs[p].pc /= "idle" /\ reqs'[p].pc = "idle")
         => LET keep == SliceTo(reqs[p].base, reqs[p].idx)
                list == MessagesOf(messagesMap', reqs[p].cl.activeId)
            IN /\ Len(list) = Len(keep) + 1
               /\ SubSeq(Shape(list), 1, Len(keep)) = Shape(keep)
               /\ list[Len(list)].role = "assistant"]_vars

\* C15: Save & Resend of an edit with non-blank text newText puts a user
\* message with content newText at the edited index; when the resend it
\* starts has ended, the message at that index is still that user message
\* and exactly one assistant message follows it; Save & Resend of a blank
\* edit changes nothing.
C15_EditResult ==
  [][/\ (SaveAndResend /\ ~Blank(edit.draft))
          => LET list == MessagesOf(messagesMap', activeId)
             IN /\ Len(list) > edit.idx
                /\ Shape(list)[edit.idx + 1] = <<"user", Trim(edit.draft)>>
     /\ \A p \in Procs :
          (reqs[p].kind = "resend" /\ reqs[p].pc /= "idle" /\ reqs'[p].pc = "idle")
            => LET list == MessagesOf(messagesMap', reqs[p].cl.activeId)
               IN /\ Len(list) = reqs[p].idx + 2
                  /\ Shape(list)[reqs[p].idx + 1] = <<"user", reqs[p].q>>
                  /\ list[Len(list)].role = "assistant"
     /\ (SaveAndResend /\ Blank(edit.draft))
          => UNCHANGED <<threads, activeId, messagesMap, store, input, busy, edit, reqs>>]_vars

\* C16: a step that is not a rename leaves the title of every thread whose
\* title is not 'New Chat' unchanged; when it gives a thread titled
\* 'New Chat' a new message list with a user message, the title becomes the
\* first 40 characters of the first user message, followed by the ellipsis
\* exactly when that message is longer.
C16_TitleDerivation ==
  [][last'.op /= "renameSidebar" =>
       \A i \in 1..Len(threads) :
          LET id == threads[i].id
              list == MessagesOf(messagesMap', id)
              u == FirstUser(list)
          IN /\ Len(threads') = Len(threads)
             /\ IF threads[i].title /= SentinelTitle
                THEN threads'[i].title = threads[i].title
                ELSE (list /= MessagesOf(messagesMap, id) /\ u /= 0)
                       => threads'[i].title = DeriveTitle(list[u].content)]_vars

\* C17: while settings.saveHistory is false, a step that creates, selects,
\* deletes, renames or pins a thread or updates messages leaves the stored
\* threads, active_thread and messages_map as they are.
C17_NoWriteWhenOff ==
  [][(~settings.saveHistory /\ ~settings'.saveHistory)
       => /\ store'.threads = store.threads
          /\ store'.active_thread = store.active_thread
          /\ store'.messages_map = store.messages_map]_vars

\* C18: when the store write of onNewChat fails, the handler still makes all
\* of its in-memory updates: the thread list, the active id and the message
\* map are those of a new chat whose writes succeed.
C18_WriteFailureSwallowed ==
  [][OnNewChatStoreFails =>
       LET done == OnNewChatOp(AppState, AppClosure, messagesMap, now)
       IN /\ threads' = done.threads
          /\ activeId' = done.activeId
          /\ messagesMap' = done.messagesMap]_vars

\* C19: at startup a value that is missing from the store or is not JSON
\* gives the empty thread list, the empty message map, the default settings
\* and no budgets; and startup completes: once the effects of the mount have
\* run, a thread is active.
C19_StartupDefaults ==
  /\ last.op = "mount" =>
       /\ Len(store.threads) /= 1 => threads = <<>>
       /\ Len(store.messages_map) /= 1 => messagesMap = [x \in {} |-> <<>>]
       /\ Len(store.settings) /= 1 => settings = DefaultSettings
       /\ Len(store.budgets) /= 1 => budgets = NoBudgets
  /\ Ready => HasActive(AppClosure)

\* C19 witness: a startup that found the texts of threads, messages_map,
\* settings and budgets cut short has set every state to its default, and
\* the effect that creates the first thread is due
C19_BrokenStart ==
  /\ last.op = "mount"
  /\ Len(store.threads) = 2 /\ threads = <<>>
  /\ Len(store.messages_map) = 2 /\ messagesMap = [x \in {} |-> <<>>]
  /\ Len(store.settings) = 2 /\ settings = DefaultSettings
  /\ Len(store.budgets) = 2 /\ budgets = NoBudgets
  /\ pending = {"active"}

\* whether the text between two frame boundaries is a frame the claim says
\* is skipped: no data marker, no JSON after it, or a type that is none of
\* tools, token, message, error, done
IsJunk(raw) ==
  LET body == TrimSyms(raw)
      jsonStr == TrimSyms(Tail(body))
  IN \/ body = <<>>
     \/ body[1].k /= "data"
     \/ Len(jsonStr) /= 1
     \/ jsonStr[1].k /= "json"
     \/ jsonStr[1].type \notin {"tools", "token", "message", "error", "done"}

\* the response text without its skipped frames
RECURSIVE WithoutJunk(_)
WithoutJunk(text) ==
  LET cut == IndexOfBoundary(text)
  IN IF cut = 0 THEN text
     ELSE LET rest == WithoutJunk(SubSeq(text, cut + 2, Len(text)))
          IN IF IsJunk(SubSeq(text, 1, cut - 1)) THEN rest
             ELSE SubSeq(text, 1, cut + 1) \o rest

\* C20: wherever a call is in its read loop, reading the text that is still
\* to come gives the same threads, message lists and stored values, and the
\* same answer to whether done was seen, as reading that text with the frames
\* removed that lack the data marker, are not JSON or have an unrecognised
\* type.
C20_JunkFramesSkipped ==
  \A p \in Procs :
     reqs[p].pc = "read" =>
       LET text == reqs[p].buf \o reqs[p].rest
           full == Drain(Env, p, text, FALSE, now)
           clean == Drain(Env, p, WithoutJunk(text), FALSE, now)
       IN /\ full.env.st = clean.env.st
          /\ full.ended = clean.ended

\* C20 witness: a call has read a stream with a frame that is not JSON, a
\* frame without the data marker and the tokens h and i up to done
C20_JunkStreamRead ==
  /\ last.op = "streamRead"
  /\ \E p \in Procs :
       /\ last.id = p
       /\ reqs[p].pc = "idle"
  /\ \E x \in DOMAIN messagesMap :
       \E i \in 1..Len(messagesMap[x]) : messagesMap[x][i].content = <<"D", "h", "i">>

\* the response text up to and including its first done frame
RECURSIVE UpToDone(_)
UpToDone(text) ==
  LET cut == IndexOfBoundary(text)
  IN IF cut = 0 THEN text
     ELSE LET body == TrimSyms(SubSeq(text, 1, cut - 1))
              jsonStr == TrimSyms(Tail(body))
          IN IF ~IsJunk(body) /\ jsonStr[1].type = "done"
             THEN SubSeq(text, 1, cut + 1)
             ELSE SubSeq(text, 1, cut + 1) \o UpToDone(SubSeq(text, cut + 2, Len(text)))

\* C21: a done frame by itself changes no thread, message list or stored
\* value; and when a read ends a call because done was seen, the message
\* lists are those that reading the text up to its first done frame gives:
\* nothing that follows done has an effect.
C21_DoneTerminates ==
  /\ [](\A p \in Procs :
          reqs[p].pc = "read" => Drain(Env, p, DoneFrame, FALSE, now).env.st = AppState)
  /\ [][\A p \in Procs :
          (reqs[p].pc = "read" /\ reqs'[p].pc = "idle"
             /\ last'.op = "streamRead" /\ last'.id = p)
            => messagesMap'
                 = Drain(Env, p, UpToDone(reqs[p].buf \o reqs[p].rest), FALSE, now).env.st.messagesMap]_vars

\* C22: once the effects of a commit have run, the composer shows the draft
\* stored for the active thread, and nothing when none is stored; and a
\* keystroke saves under the key of the active thread only.
C22_DraftPerThread ==
  /\ [](Ready => input = (IF activeId \in DOMAIN store.drafts
                          THEN store.drafts[activeId] ELSE <<>>))
  /\ [][TypeInput =>
          \A x \in DOMAIN store.drafts \ {activeId} :
             x \in DOMAIN store'.drafts /\ store'.drafts[x] = store.drafts[x]]_vars

\* C23: while the palette is open and at least one command matches the query,
\* the selection index lies within [0, matchCount-1], whatever query edits and
\* ArrowUp/ArrowDown presses came before, so that Enter invokes a command
\* (closes the palette and sets the timer of the selected command).
C23_SelectionInRange ==
  /\ [](palette.open /\ Filtered(palette.query) /= {}
          => palette.idx \in 0..(Cardinality(Filtered(palette.query)) - 1))
  /\ [][(PaletteEnter /\ Filtered(palette.query) /= {})
          => (~palette'.open /\ palette'.timer.cmd \in Filtered(palette.query))]_vars

\* C24: a command of the palette is invoked, by Enter or by a click on its
\* entry, only in a task later than the handler that closed the palette: the
\* step that runs the command is not the step that closes the palette.
\* Escape closes the palette, sets no timer and runs no command.
C24_InvocationDeferred ==
  /\ [][last'.op \in {"paletteClick", "paletteTimer"}
          => ~(palette.open /\ ~palette'.open)]_vars
  /\ [][last'.op = "paletteEscape"
          => /\ ~palette'.open
             /\ palette'.timer = palette.timer
             /\ UNCHANGED <<threads, activeId, messagesMap, store>>]_vars

\* the steps in which a call of send or resendWithText goes on
CallOps == {"streamOpen", "streamFail", "streamRead", "streamEnd",
            "askOk", "askFail", "fallbackOk", "fallbackFail"}

\* C25: a step of a call that was started in thread T changes the message
\* list of no thread other than T and creates no list other than T's, also
\* after another thread has been selected or a new chat has been started.
C25_StreamStaysInThread ==
  [][\A p \in Procs :
       (last'.op \in CallOps /\ last'.id = p /\ reqs[p].cl.activeId /= NoId)
         => \A x \in (DOMAIN messagesMap \cup DOMAIN messagesMap') \ {reqs[p].cl.activeId} :
              /\ x \in DOMAIN messagesMap
              /\ x \in DOMAIN messagesMap'
              /\ messagesMap'[x] = messagesMap[x]]_vars

\* a chunk of a stream started in a thread that is no longer the active one
\* has just been read, and has put a token into that thread's list
C25_ReadAfterSwitch ==
  /\ last.op = "streamRead"
  /\ reqs[last.id].pc = "read"
  /\ reqs[last.id].cl.activeId /= activeId
  /\ activeId /= NoId
  /\ reqs[last.id].cl.activeId \in DOMAIN messagesMap
  /\ LET msgs == messagesMap[reqs[last.id].cl.activeId]
     IN Len(msgs) > 0 /\ msgs[Len(msgs)].role = "assistant" /\ msgs[Len(msgs)].content /= <<>>

\* the call p, had it been started by send
AsSend(env, p) == [env EXCEPT !.reqs[p].kind = "send"]

\* C26: a call of resendWithText goes on as a call of send does under the
\* same backend behaviour: a chunk of the stream changes the message lists as
\* send's loop would change them, and a failure of the stream is followed by
\* the single-shot request, not by a report.
C26_ResendAsSend ==
  /\ [][\A p \in Procs :
         (reqs[p].kind = "resend" /\ last'.op = "streamRead" /\ last'.id = p)
           => \E n \in 1..Len(reqs[p].rest) :
                LET d == Drain(AsSend(Env, p), p, reqs[p].buf \o SubSeq(reqs[p].rest, 1, n),
                               FALSE, now)
                IN /\ d.ended <=> reqs'[p].pc = "idle"
                   /\ ~d.ended => reqs'[p].rest = SubSeq(reqs[p].rest, n + 1, Len(reqs[p].rest))
                   /\ messagesMap' = d.env.st.messagesMap]_vars
  /\ [][\A p \in Procs :
         (reqs[p].kind = "resend" /\ last'.op = "streamFail" /\ last'.id = p)
           => (reqs'[p].pc = "fallback" /\ messagesMap' = messagesMap)]_vars

\* the event of the chunk the call p reads in this step, when the chunk is
\* one whole frame and the buffer was empty
OneFrameRead(p) ==
  /\ last'.op = "streamRead" /\ last'.id = p
  /\ reqs[p].kind = "send"
  /\ reqs[p].buf = <<>>
  /\ reqs'[p].pc = "read"
  /\ Len(reqs[p].rest) - Len(reqs'[p].rest) = Len(DoneFrame)
  /\ reqs[p].rest[1] = DataMarker
  /\ reqs[p].cl.activeId \in DOMAIN messagesMap

\* C27: in send's stream a tools event appends one assistant message with
\* empty content and the event's results and missing ({} and [] by default),
\* a message event one assistant message with the event's content, an error
\* event one assistant message with the event's message or 'Error during
\* streaming'; the messages before it stay as they are.  A token that follows
\* a tools event is appended to the content of that tools message.
C27_OneMessagePerEvent ==
  [][\A p \in Procs :
       OneFrameRead(p) =>
         LET evt == reqs[p].rest[2]
             old == messagesMap[reqs[p].cl.activeId]
             new == messagesMap'[reqs[p].cl.activeId]
             appended(content, tool) ==
               /\ Len(new) = Len(old) + 1
               /\ SubSeq(new, 1, Len(old)) = old
               /\ new[Len(new)].role = "assistant"
               /\ new[Len(new)].content = content
               /\ new[Len(new)].tool = tool
         IN /\ evt.type = "tools" => appended(<<>>, ToolOf(evt))
            /\ evt.type = "message" => appended(evt.content, NoTool)
            /\ evt.type = "error" => appended(OrElse(evt.message, ErrorDuringStreaming), NoTool)
            /\ (evt.type = "token" /\ Len(old) > 0 /\ old[Len(old)].tool /= NoTool)
                 => new = [old EXCEPT ![Len(old)].content = @ \o evt.content]]_vars

\* the message lists after the call p has read, in one chunk, all of the
\* response text it has not yet split into frames
ReadAtOnce(env, p) ==
  Drain(env, p, env.reqs[p].buf \o env.reqs[p].rest, FALSE, now).env.st.messagesMap

\* C28: the lists a stream leaves do not depend on how the response text is
\* split into chunks: a read that delivers any part of the text leaves the
\* call where reading the rest in one chunk gives the lists that reading all
\* in one chunk would have given, and the read that ends the call leaves
\* those lists.
C28_ChunkingIndependent ==
  [][\A p \in Procs :
       (reqs[p].pc = "read" /\ last'.op = "streamRead" /\ last'.id = p)
         => IF reqs'[p].pc = "read"
            THEN ReadAtOnce(Env', p) = ReadAtOnce(Env, p)
            ELSE messagesMap' = ReadAtOnce(Env, p)]_vars

\* C29: every key of the message map is the id of a thread of the list; in
\* particular no step after deleteThread(id) creates a list for id again.
C29_KeysAreThreads ==
  /\ [](DOMAIN messagesMap \subseteq {threads[i].id : i \in 1..Len(threads)})
  /\ [][\A x \in DOMAIN messagesMap' \ DOMAIN messagesMap :
          x \in {threads'[i].id : i \in 1..Len(threads')}]_vars

\* C30: a title that is not 'New Chat', such as one set by renameThread while
\* a send is in flight, is left as it is by every later step of that send.
C30_RenameKept ==
  [][\A p \in Procs :
       (last'.op \in CallOps /\ last'.id = p /\ reqs[p].kind = "send")
         => \A i \in 1..Len(threads) :
              (threads[i].id = reqs[p].cl.activeId /\ threads[i].title /= SentinelTitle)
                => (Len(threads') = Len(threads) /\ threads'[i].title = threads[i].title)]_vars

====
